---- MODULE Spec2Model ----
(***************************************************************************)
(* WhiteNoiseEffect::processChannel                                        *)
(* (src/src/effects/backends/builtin/whitenoiseeffect.cpp).                *)
(*                                                                         *)
(* Numbers.  The code computes in float/double; the model computes the     *)
(* same expressions in exact fixed point:                                  *)
(*   - a dry/wet reading is an integer in 0..RawOne (RawOne is 1.0f);      *)
(*   - a deadzoned value and a gain are integers in 0..DzOne (DzOne is     *)
(*     1.0f); DzOne is a common multiple of the two divisors map_value     *)
(*     is called with, so both remaps are exact;                           *)
(*   - a ramped coefficient and an output sample are integers in units of  *)
(*     1/OutOne, OutOne = DzOne * bufferSize, so getNth is exact;          *)
(*   - a frequency is an integer number of Hz, Q is in tenths.             *)
(* Rounding of the float operations is not modelled.  std::pow is computed *)
(* by LogBits geometric halvings with integer square roots: exact to the   *)
(* floor at x = 0, 1/2 and 1, within about 1% elsewhere.                   *)
(* The sample rate is fixed when the channel is set up.                    *)
(***************************************************************************)
EXTENDS Integers, Sequences, FiniteSets

\* ------------------------------------------------------------ bounds
\* engineParameters.samplesPerBuffer() of every call
MaxFrames == 2
\* halving steps of the fixed-point std::pow
LogBits == 10
\* period of the per-channel random generator
GenPeriod == 8

\* ------------------------------------------------- program constants
kMinFreq == 100
kMaxFreq == 22050
\* 1.0f of the dry/wet control
RawOne == 100000
\* 0.01f
drywet_deadzone == 1000
\* 0.0001 is 1 / ThresholdDen
ThresholdDen == 10000

Half == RawOne \div 2
\* 1.0f of a deadzoned value or gain: 99 * 98000, a multiple of
\* RawOne - drywet_deadzone (99000) and of 2 * (RawOne - Half - drywet_deadzone)
DzOne == ((RawOne - drywet_deadzone) \div drywet_deadzone) * (RawOne - 2 * drywet_deadzone)
DzHalf == DzOne \div 2
bufferSize == MaxFrames
OutOne == DzOne * bufferSize

\* ---------------------------------------------------- inputs of a call
\* readings of the dry/wet control: the ends, mid-range, the band edges, inside
\* the band, and just outside the upper edge (a gain between 0 and 1e-4)
RawValues == {0, 25000, 49000, 49500, Half, 51000, 51004, RawOne}
\* readings of the Q control, in tenths (manifest range 0.4 .. 4.0)
QValues == {4, 40}
SampleRates == {44100, 48000}
EnableStates == {"Enabled", "Disabling"}
InSamples == {-1, 1}
\* the dry input buffers: a constant level
InBuffers == {[i \in 1..bufferSize |-> s] : s \in InSamples}

VARIABLES
    sampleRate,         \* engineParameters.sampleRate()
    previous_gain,      \* gs.previous_gain, in 1/DzOne
    previous_q,         \* gs.previous_q
    gen,                \* gs.gen
    m_noiseBuffer,      \* gs.m_noiseBuffer
    m_filteredBuffer,   \* gs.m_filteredBuffer
    m_highpass,         \* gs.m_highpass: [coef, delay]
    m_lowpass,          \* gs.m_lowpass: [coef, delay]
    pOutput,            \* the output buffer, in 1/OutOne
    call,               \* arguments and locals of the latest processChannel call
    last                \* path and gain of the call before it

vars == <<sampleRate, previous_gain, previous_q, gen, m_noiseBuffer, m_filteredBuffer,
          m_highpass, m_lowpass, pOutput, call, last>>

\* ------------------------------------------------------------ helpers
Abs(x) == IF x < 0 THEN -x ELSE x
Min(a, b) == IF a < b THEN a ELSE b
Max(a, b) == IF a > b THEN a ELSE b
Clamp(v, lo, hi) == IF v < lo THEN lo ELSE IF hi < v THEN hi ELSE v

\* T map_value(value, input_from, input_to, output_from, output_to):
\* inputs in raw units, outputs in 1/DzOne; the quotient is exact
map_value(value, input_from, input_to, output_from, output_to) ==
    output_from + ((output_to - output_from) \div (input_to - input_from)) * (value - input_from)

\* largest r in lo..hi with r * r <= n
RECURSIVE SqrtSearch(_, _, _)
SqrtSearch(n, lo, hi) ==
    IF lo >= hi THEN lo
    ELSE LET mid == (lo + hi + 1) \div 2
         IN IF mid * mid <= n THEN SqrtSearch(n, mid, hi) ELSE SqrtSearch(n, lo, mid - 1)

\* lo^(1-x) * hi^x for x in 0..RawOne, by k geometric halvings
RECURSIVE GeoInterp(_, _, _, _)
GeoInterp(lo, hi, x, k) ==
    IF x >= RawOne THEN hi
    ELSE IF k = 0 \/ x = 0 THEN lo
    ELSE LET mid == SqrtSearch(lo * hi, lo, hi)
         IN IF 2 * x >= RawOne
               THEN GeoInterp(mid, hi, 2 * x - RawOne, k - 1)
               ELSE GeoInterp(lo, mid, 2 * x, k - 1)

\* fMin * pow(fMax / fMin, x) for the x the control can produce
PowTable ==
    [x \in {2 * d : d \in RawValues} \cup {2 * (d - Half) : d \in RawValues} |->
        GeoInterp(kMinFreq, kMaxFreq, Clamp(x, 0, RawOne), LogBits)]

\* double interpolate_log(x, fMin, fMax): fMin * pow(fMax / fMin, clamp(x, 0, 1))
interpolate_log(x, fMin, fMax) ==
    IF fMin = kMinFreq /\ fMax = kMaxFreq /\ x \in DOMAIN PowTable
    THEN PowTable[x]
    ELSE GeoInterp(fMin, fMax, Clamp(x, 0, RawOne), LogBits)

\* ------------------------------------------------- deadzone and gain
\* variant of Deadzone: the Disabling branch (lines 100-102) left out
Deadzone_NoDisabling(drywet, enableState) ==
    IF drywet >= Half
    THEN IF drywet < Half + drywet_deadzone
         THEN DzHalf
         ELSE map_value(drywet, Half + drywet_deadzone, RawOne, DzHalf, DzOne)
    ELSE IF drywet > Half - drywet_deadzone
         THEN DzHalf
         ELSE map_value(drywet, 0, RawOne - drywet_deadzone, 0, DzOne)

\* variant of Deadzone: the dead band (lines 105-106, 113-114) left out
Deadzone_NoBand(drywet, enableState) ==
    IF enableState = "Disabling" THEN DzHalf
    ELSE IF drywet >= Half
    THEN map_value(drywet, Half + drywet_deadzone, RawOne, DzHalf, DzOne)
    ELSE map_value(drywet, 0, RawOne - drywet_deadzone, 0, DzOne)

\* lines 98-120: drywet_deadzoned, in 1/DzOne
Deadzone(drywet, enableState) ==
    IF enableState = "Disabling" THEN DzHalf
    ELSE IF drywet >= Half
    THEN IF drywet < Half + drywet_deadzone
         THEN DzHalf
         ELSE map_value(drywet, Half + drywet_deadzone, RawOne, DzHalf, DzOne)
    ELSE IF drywet > Half - drywet_deadzone
         THEN DzHalf
         ELSE map_value(drywet, 0, RawOne - drywet_deadzone, 0, DzOne)

\* variant of Gain: the distance taken from 0 instead of 0.5
Gain_FromZero(drywet_deadzoned) == Min(DzOne, Abs(drywet_deadzoned) * 2)

\* line 123: gain = min(1.0f, abs(drywet_deadzoned - 0.5f) * 2.0f), in 1/DzOne
Gain(drywet_deadzoned) == Min(DzOne, Abs(drywet_deadzoned - DzHalf) * 2)

\* g > 0.0001, for g in 1/DzOne
AboveThreshold(g) == g > DzOne \div ThresholdDen

\* variant of IsActive: threshold 0
IsActive_ZeroThreshold(gain, prev) == gain > 0 \/ prev > 0

\* variant of IsActive: gs.previous_gain not tested
IsActive_GainOnly(gain, prev) == AboveThreshold(gain)

\* line 126: gain > 0.0001 || gs.previous_gain > 0.0001
IsActive(gain, prev) == AboveThreshold(gain) \/ AboveThreshold(prev)

\* ---------------------------------------------------------------- ramp
\* RampingValue<T>::getNth(step) for RampingValue(initial, final, steps):
\* initial + (final - initial) / steps * step, in 1/(DzOne * steps)
getNth(initial, final, steps, step) == initial * steps + (final - initial) * step

\* variant of gain_ramping_value: the ramp seeded with the target (a step)
gain_ramping_value_Step(prev, gain) ==
    [i \in 1..bufferSize |-> getNth(gain, gain, bufferSize, i - 1)]

\* lines 127-128 and 163: gain_ramping_value.getNth(i) for i in 0..bufferSize-1
gain_ramping_value(prev, gain) ==
    [i \in 1..bufferSize |-> getNth(prev, gain, bufferSize, i - 1)]

\* --------------------------------------------------------------- noise
\* one draw of r_distributor(gs.gen): the sample and the generator after it
NoiseOf(g) == (g % 3) - 1
GenNext(g) == (5 * g + 1) % GenPeriod

RECURSIVE GenAfter(_, _)
GenAfter(g, n) == IF n = 0 THEN g ELSE GenAfter(GenNext(g), n - 1)

\* lines 131-136
GenerateNoise(g) == [i \in 1..bufferSize |-> NoiseOf(GenAfter(g, i - 1))]

\* ------------------------------------------------------------- corners
\* variant of hp_center_freq: the side chosen by the deadzoned value
hp_center_freq_ByDeadzoned(drywet, drywet_deadzoned) ==
    IF drywet_deadzoned < DzHalf
    THEN Clamp(interpolate_log(drywet * 2, kMinFreq, kMaxFreq), kMinFreq, kMaxFreq)
    ELSE kMinFreq

\* lines 138-149
hp_center_freq(drywet, drywet_deadzoned) ==
    IF drywet < Half
    THEN Clamp(interpolate_log(drywet * 2, kMinFreq, kMaxFreq), kMinFreq, kMaxFreq)
    ELSE kMinFreq

lp_center_freq(drywet, drywet_deadzoned) ==
    IF drywet < Half
    THEN kMaxFreq
    ELSE Clamp(interpolate_log((drywet - Half) * 2, kMinFreq, kMaxFreq), kMinFreq, kMaxFreq)

\* ------------------------------------------------------------- filters
\* setFrequencyCorners(sampleRate, centerFreq, Q): new coefficients, delay kept
setFrequencyCorners(f, rate, centerFreq, q) ==
    [f EXCEPT !.coef = [rate |-> rate, corner |-> centerFreq, q |-> q]]

Clip(x) == Clamp(x, -1, 1)

\* one output sample of a second-order section; delay = <<x[n-1], x[n-2]>>
FilterStep(kind, coef, delay, x) ==
    IF kind = "high"
    THEN IF coef.corner <= kMinFreq THEN x ELSE Clip(x - delay[1])
    ELSE IF coef.corner >= kMaxFreq THEN x ELSE Clip(x + delay[1])

\* process(pIn, pOut, n): the output samples and the filter after them
RECURSIVE FilterRun(_, _, _, _, _)
FilterRun(kind, f, in, i, acc) ==
    IF i > Len(in) THEN [out |-> acc, filter |-> f]
    ELSE FilterRun(kind,
                   [f EXCEPT !.delay = <<in[i], f.delay[1]>>],
                   in, i + 1,
                   Append(acc, FilterStep(kind, f.coef, f.delay, in[i])))

process(kind, f, in) == FilterRun(kind, f, in, 1, <<>>)

\* ----------------------------------------------------------------- mix
\* lines 162-168: pOutput[i] = pInput[i] * (1 - gain_ramped) + filtered[i] * gain_ramped
Mix(pInput, filtered, ramp) ==
    [i \in 1..bufferSize |-> pInput[i] * (OutOne - ramp[i]) + filtered[i] * ramp[i]]

\* SampleUtil::copy(pOutput, pInput, n)
Copy(pInput) == [i \in 1..bufferSize |-> pInput[i] * OutOne]

\* ------------------------------------------------------------ branches
\* lines 127-168
ActivePath(pInput, drywet, drywet_deadzoned, q, gain) ==
    LET ramp == gain_ramping_value(previous_gain, gain)
        noise == GenerateNoise(gen)
        hp == hp_center_freq(drywet, drywet_deadzoned)
        lp == lp_center_freq(drywet, drywet_deadzoned)
        high == process("high", setFrequencyCorners(m_highpass, sampleRate, hp, q), noise)
        low == process("low", setFrequencyCorners(m_lowpass, sampleRate, lp, q), high.out)
    IN /\ gen' = GenAfter(gen, bufferSize)
       /\ m_noiseBuffer' = noise
       /\ m_highpass' = high.filter
       /\ m_lowpass' = low.filter
       /\ m_filteredBuffer' = low.out
       /\ pOutput' = Mix(pInput, low.out, ramp)

\* variant of BypassPath: the noise loop run before the branch
BypassPath_Generates(pInput) ==
    /\ pOutput' = Copy(pInput)
    /\ gen' = GenAfter(gen, bufferSize)
    /\ m_noiseBuffer' = GenerateNoise(gen)
    /\ UNCHANGED <<m_filteredBuffer, m_highpass, m_lowpass>>

\* lines 170-173
BypassPath(pInput) ==
    /\ pOutput' = Copy(pInput)
    /\ UNCHANGED <<gen, m_noiseBuffer, m_filteredBuffer, m_highpass, m_lowpass>>

\* ------------------------------------------------------- state machine
NoCall == [path |-> "none"]

Zeros == [i \in 1..bufferSize |-> 0]
FreshFilter == [coef |-> [rate |-> 0, corner |-> 0, q |-> 0], delay |-> <<0, 0>>]

\* the channel state after construction
Init ==
    /\ sampleRate \in SampleRates
    /\ previous_gain = 0
    /\ previous_q \in QValues
    /\ gen = 0
    /\ m_noiseBuffer = Zeros
    /\ m_filteredBuffer = Zeros
    /\ m_highpass = FreshFilter
    /\ m_lowpass = FreshFilter
    /\ pOutput = Zeros
    /\ call = NoCall
    /\ last = NoCall

\* lines 81-178
ProcessChannel ==
    \E drywet \in RawValues, q \in QValues, enableState \in EnableStates,
       pInput \in InBuffers :
        LET drywet_deadzoned == Deadzone(drywet, enableState)
            gain == Gain(drywet_deadzoned)
            active == IsActive(gain, previous_gain)
        IN /\ IF active
              THEN ActivePath(pInput, drywet, drywet_deadzoned, q, gain)
              ELSE BypassPath(pInput)
           /\ previous_gain' = gain
           /\ previous_q' = q
           /\ UNCHANGED sampleRate
           /\ call' = [path |-> IF active THEN "active" ELSE "bypass",
                       enableState |-> enableState,
                       drywet |-> drywet,
                       q |-> q,
                       pInput |-> pInput,
                       drywet_deadzoned |-> drywet_deadzoned,
                       gain |-> gain,
                       ramp |-> IF active THEN gain_ramping_value(previous_gain, gain)
                                ELSE <<>>,
                       entry_previous_gain |-> previous_gain]
           /\ last' = IF call.path = "none" THEN NoCall
                      ELSE [path |-> call.path, gain |-> call.gain]

Next == ProcessChannel

Spec == Init /\ [][Next]_vars

\* ------------------------------------------------------------- claims
Called == call.path # "none"
\* g < 0.0001 and g <= 0.0001 agree for g in 1/DzOne (0.0001 is 970.2 / DzOne)
Below(g) == g <= DzOne \div ThresholdDen
\* the output buffer holds the dry input, sample for sample
OutputIsInput == \A i \in 1..bufferSize : pOutput[i] = call.pInput[i] * OutOne
\* the value the preceding call stored (the initial 0 before the first call)
StoredBefore == IF last.path = "none" THEN 0 ELSE last.gain

\* C1: in a call whose target gain and stored previous gain are both below
\* 1e-4, every output sample equals the input sample, whatever Q, sample rate
\* and enable state are.
C1_BypassCopiesInput ==
    (Called /\ Below(call.gain) /\ Below(call.entry_previous_gain)) => OutputIsInput

\* a bypassed call with a non-zero target gain, after noise has been generated
C1_Witness ==
    /\ Called
    /\ call.gain > 0 /\ Below(call.gain) /\ Below(call.entry_previous_gain)
    /\ gen # 0
    /\ \E i \in 1..bufferSize : m_filteredBuffer[i] # call.pInput[i]

\* C2: on the active path the coefficient at frame i is
\* previous + (target - previous) * i / N with previous the value stored by the
\* preceding call; it is previous at frame 0, lies between previous and target,
\* and is the coefficient of the mix.
C2_RampFromStored ==
    (Called /\ call.path = "active") =>
        \A i \in 1..bufferSize :
            /\ call.ramp[i] = StoredBefore * bufferSize + (call.gain - StoredBefore) * (i - 1)
            /\ call.ramp[1] = StoredBefore * bufferSize
            /\ call.ramp[i] >= Min(StoredBefore, call.gain) * bufferSize
            /\ call.ramp[i] <= Max(StoredBefore, call.gain) * bufferSize
            /\ pOutput[i] = call.pInput[i] * (OutOne - call.ramp[i])
                            + m_filteredBuffer[i] * call.ramp[i]

\* an active call whose target differs from a non-zero stored value
C2_Witness ==
    /\ Called /\ call.path = "active"
    /\ last.path # "none" /\ last.gain > 0
    /\ call.gain > 0 /\ call.gain # last.gain

\* C3: after a call with enableState = Disabling the stored previous_gain is 0,
\* for every reading, Q and prior state, and the next call seeds its ramp from 0.
C3_DisablingStoresBypass ==
    [][/\ call'.enableState = "Disabling" => previous_gain' = 0
       /\ (Called /\ call.enableState = "Disabling" /\ call'.path = "active")
            => call'.ramp[1] = 0]_vars

\* a Disabling call at full wet with a fully wet channel: 0 is stored
C3_Witness ==
    /\ Called /\ call.enableState = "Disabling"
    /\ call.drywet = RawOne /\ call.entry_previous_gain = DzOne
    /\ call.path = "active" /\ previous_gain = 0

\* C4: readings exactly at 0.5 - 0.01 and 0.5 + 0.01 map to the neutral 0.5
\* (gain 0) like readings inside the band, and [0, 0.49] and [0.51, 1] map onto
\* [0, 0.5] and [0.5, 1].
C4_DeadzoneContinuous ==
    (Called /\ call.enableState # "Disabling") =>
        /\ call.drywet \in {Half - drywet_deadzone, Half + drywet_deadzone}
             => (call.drywet_deadzoned = DzHalf /\ call.gain = 0)
        /\ (Half - drywet_deadzone < call.drywet /\ call.drywet < Half + drywet_deadzone)
             => (call.drywet_deadzoned = DzHalf /\ call.gain = 0)
        /\ call.drywet = 0 => call.drywet_deadzoned = 0
        /\ call.drywet = RawOne => call.drywet_deadzoned = DzOne
        /\ call.drywet <= Half - drywet_deadzone => call.drywet_deadzoned <= DzHalf
        /\ call.drywet >= Half + drywet_deadzone => call.drywet_deadzoned >= DzHalf

\* C5: on the active path both corners handed to the filters lie in the open
\* interval (0, sampleRate / 2).
C5_CornersBelowNyquist ==
    (Called /\ call.path = "active") =>
        /\ 0 < m_highpass.coef.corner /\ 2 * m_highpass.coef.corner < m_highpass.coef.rate
        /\ 0 < m_lowpass.coef.corner /\ 2 * m_lowpass.coef.corner < m_lowpass.coef.rate

\* C6 as stated: when the control reads 0 on two consecutive calls, the output
\* equals the input in both.
C6_ZeroIsBypass ==
    [][(Called /\ call.drywet = 0 /\ call'.drywet = 0) =>
         /\ OutputIsInput
         /\ \A i \in 1..bufferSize : pOutput'[i] = call'.pInput[i] * OutOne]_vars

\* C6 amended: when the control reads 0.5 on two consecutive calls, the output
\* equals the input in the second call, and in the first one too when the gain
\* stored before it was at most 1e-4.
C6_NeutralIsBypass ==
    [][(Called /\ call.drywet = Half /\ call'.drywet = Half) =>
         /\ \A i \in 1..bufferSize : pOutput'[i] = call'.pInput[i] * OutOne
         /\ Below(call.entry_previous_gain) => OutputIsInput]_vars

\* a second consecutive bypassed call at the neutral reading
C6_Witness ==
    /\ Called /\ call.drywet = Half /\ call.enableState = "Enabled"
    /\ call.path = "bypass" /\ OutputIsInput
    /\ last.path = "bypass" /\ last.gain = 0
    /\ gen # 0

\* C7 as stated: a reading of exactly 0.5 gives gain 0 and output = input.
C7_CentreIsDry ==
    (Called /\ call.drywet = Half) => (call.gain = 0 /\ OutputIsInput)

\* C7 amended: a reading of exactly 0.5 gives gain 0 for every Q, and output =
\* input when the stored previous gain is at most 1e-4 (otherwise the buffer
\* ramps from the stored gain down to 0).
C7_CentreIsDryOnceRamped ==
    (Called /\ call.drywet = Half) =>
        /\ call.gain = 0
        /\ previous_gain = 0
        /\ Below(call.entry_previous_gain) => OutputIsInput

\* a call at exactly 0.5 on a silent channel that has produced noise before
C7_Witness ==
    /\ Called /\ call.drywet = Half /\ call.enableState = "Enabled"
    /\ call.entry_previous_gain = 0 /\ OutputIsInput
    /\ m_highpass.coef.q # call.q
    /\ \E i \in 1..bufferSize : m_filteredBuffer[i] # call.pInput[i]

\* the logarithmic corner for x = xRaw / RawOne, clamped to [fMin, fMax]
LogCorner(xRaw) == Clamp(interpolate_log(xRaw, kMinFreq, kMaxFreq), kMinFreq, kMaxFreq)

\* C8 as stated: the side is chosen by the deadzoned value; with the deadzoned
\* value exactly 0.5 both corners stay pinned.
C8_SideByDeadzoned ==
    (Called /\ call.path = "active") =>
        /\ m_highpass.coef.corner # kMinFreq => call.drywet_deadzoned < DzHalf
        /\ m_lowpass.coef.corner # kMaxFreq => call.drywet_deadzoned > DzHalf
        /\ call.drywet_deadzoned < DzHalf =>
              /\ m_highpass.coef.corner = LogCorner(2 * call.drywet)
              /\ m_lowpass.coef.corner = kMaxFreq
        /\ call.drywet_deadzoned > DzHalf =>
              /\ m_lowpass.coef.corner = LogCorner(2 * (call.drywet - Half))
              /\ m_highpass.coef.corner = kMinFreq
        /\ call.drywet_deadzoned = DzHalf =>
              /\ m_highpass.coef.corner = kMinFreq
              /\ m_lowpass.coef.corner = kMaxFreq

\* C8 amended: the side is chosen by the raw reading. Below 0.5 the high-pass
\* corner is the logarithmic formula with x = 2 * raw (sqrt(fMin * fMax) at
\* 0.25) and the low-pass stays at fMax; from 0.5 up the low-pass corner is the
\* formula with x = 2 * (raw - 0.5) and the high-pass stays at fMin; this also
\* when the deadzoned value is exactly 0.5.
C8_SideByRaw ==
    (Called /\ call.path = "active") =>
        /\ m_highpass.coef.corner # kMinFreq => call.drywet < Half
        /\ m_lowpass.coef.corner # kMaxFreq => call.drywet >= Half
        /\ call.drywet < Half =>
              /\ m_highpass.coef.corner = LogCorner(2 * call.drywet)
              /\ m_lowpass.coef.corner = kMaxFreq
        /\ call.drywet >= Half =>
              /\ m_lowpass.coef.corner = LogCorner(2 * (call.drywet - Half))
              /\ m_highpass.coef.corner = kMinFreq
        /\ 4 * call.drywet = RawOne =>
              /\ m_highpass.coef.corner * m_highpass.coef.corner <= kMinFreq * kMaxFreq
              /\ (m_highpass.coef.corner + 1) * (m_highpass.coef.corner + 1)
                    > kMinFreq * kMaxFreq

\* an active call with the reading inside the dead band below the centre:
\* the deadzoned value is 0.5 and the high-pass corner is off fMin
C8_Witness ==
    /\ Called /\ call.path = "active"
    /\ call.drywet < Half /\ call.drywet_deadzoned = DzHalf
    /\ m_highpass.coef.corner > kMinFreq

\* C9: a bypassed call leaves the generator, both filters and both scratch
\* buffers unchanged; every call stores its Q in previous_q.
C9_BypassFrame ==
    [][/\ call'.path = "bypass" =>
            UNCHANGED <<gen, m_highpass, m_lowpass, m_noiseBuffer, m_filteredBuffer>>
       /\ previous_q' = call'.q]_vars

\* a bypassed call on a channel whose generator and filters have been used,
\* with a Q other than the one the filters were tuned with
C9_Witness ==
    /\ Called /\ call.path = "bypass"
    /\ gen # 0 /\ m_highpass.coef.corner > 0
    /\ m_highpass.coef.q # call.q /\ previous_q = call.q

\* C10: a call other than the first is bypassed exactly when its target gain
\* and the preceding call's target gain are both <= 1e-4.
C10_BypassIffBothLow ==
    last.path # "none" =>
        (call.path = "bypass" <=> (Below(call.gain) /\ Below(last.gain)))

\* the first bypassed call after a ramp-down: the preceding call was active
\* with target 0
C10_Witness ==
    /\ last.path = "active" /\ last.gain = 0
    /\ call.path = "bypass"

====
